---- MODULE Spec2Model ----
(***************************************************************************)
(* ClarityAI: the useChat hook (frontend/src/hooks/useChat.ts) and the     *)
(* ChatInterface component that uses it, the chat edge function            *)
(* (supabase/functions/chat/index.ts) and its client, the message-count    *)
(* trigger and the row-level-security policies of the SQL schemas.         *)
(*                                                                         *)
(* The specifications share the module's variables; each one moves only    *)
(* its own part of the state:                                              *)
(*   Spec           the useChat hook driven by React, the browser's        *)
(*                  sockets and timers, and the REST endpoints             *)
(*   SpecInterface  the hook driven by the controls of ChatInterface       *)
(*   SpecFrames     the hook mounted once, the frames it handles logged    *)
(*   SpecMessages   the hook's list of messages, with the clock that gives *)
(*                  the ids and the reactions of the user                  *)
(*   SpecInit       initializeChat with the answers of the REST endpoints  *)
(*                  logged                                                 *)
(*   SpecReconnect  the hook's connection life cycle alone, long enough    *)
(*                  for a whole run of reconnect attempts                  *)
(*   SpecAllFail    the hook, mounted once, with a server no socket        *)
(*                  reaches                                                *)
(*   SpecEdge       the chat edge function over the messages table         *)
(*   SpecTrigger    concurrent inserting transactions and the count        *)
(*                  trigger                                                *)
(*   SpecRLS        callers acting through the row-level-security policies *)
(***************************************************************************)
EXTENDS Integers, Sequences, FiniteSets, TLC

(***************************************************************************)
(* Bounds of the hook model.                                               *)
(***************************************************************************)
MaxSockets == 2
MaxReconnectSockets == 6
MaxEffects == 2
MaxInputs == 3
MaxClock == 2

(***************************************************************************)
(* Bounds of the database models.                                          *)
(***************************************************************************)
MaxRequests == 2
MaxTx == 3
MaxMessageRows == 2

\* useChat.ts:30
maxReconnectAttempts == 5

Min(a, b) == IF a < b THEN a ELSE b

RECURSIVE Pow2(_)
Pow2(n) == IF n = 0 THEN 1 ELSE 2 * Pow2(n - 1)

(***************************************************************************)
(* The hook's state.                                                       *)
(***************************************************************************)
VARIABLES
    sessionId,            \* the sessionId option of the current render
    mounted,              \* "no" | "yes" | "gone": the component's life
    inits,                \* the initializeChat calls: [pc, sid]
    messages,             \* useState<Message[]>
    messageCount,         \* useState(0)
    isTyping,             \* useState(false)
    isConnected,          \* useState(false)
    wsRef,                \* 0 (null) or an index into sockets
    sockets,              \* every WebSocket the hook created: [state, sid]
    timers,               \* every setTimeout of attemptReconnect: [delay, sid, status]
    reconnectTimeoutRef,  \* 0 (null) or an index into timers
    reconnectAttempts,    \* useRef(0)
    errors,               \* the onError calls, counted by message
    posts,                \* the POST /chat requests in flight: [session_id]
    wsFrames,             \* how many frames wsRef.current.send has sent
    \* observations of the run, written by the handlers and read by no guard
    runScheduled,         \* setTimeout calls of attemptReconnect since the last onopen
    lastDelay,            \* the delay of the latest setTimeout of attemptReconnect
    loaded,               \* the history the latest setMessages(formattedHistory) took
    nInputs,              \* sendMessage calls with non-blank content, addReaction
                          \*   calls, and frames received
    caught,               \* how many times a catch block of the hook has run
    frameLog,             \* the types of the frames handled, kept by WsFrameLogged only
    \* ChatInterface: useState<string | null>(null), "" for null
    connectionError

chatVars == <<sessionId, mounted, inits, messages, messageCount, isTyping,
              isConnected, wsRef, sockets, timers, reconnectTimeoutRef,
              reconnectAttempts, errors, posts, wsFrames, runScheduled,
              lastDelay, loaded, nInputs, caught, frameLog,
              connectionError>>

(***************************************************************************)
(* The chat edge function and its messages table.                          *)
(***************************************************************************)
VARIABLES
    requests,             \* the requests served: [method, content, session_id, token, pc, userId,
                          \*   status, headers, body], and thrown: what ApiService.sendMessage threw
    rows                  \* the messages table: [session_id, user_id, sender, request]

edgeVars == <<requests, rows>>

(***************************************************************************)
(* chat_sessions.message_count and the transactions inserting into         *)
(* chat_messages (PostgreSQL, READ COMMITTED).                             *)
(***************************************************************************)
VARIABLES
    tx,                   \* the transactions: [pc, session_id, counted]
    message_count,        \* the committed chat_sessions.message_count, by session
    rowLock,              \* the transaction holding the chat_sessions row's lock, or 0
    newCount              \* the uncommitted message_count written by the lock holder

triggerVars == <<tx, message_count, rowLock, newCount>>

(***************************************************************************)
(* The sessions and messages tables behind the row-level-security policies.*)
(***************************************************************************)
VARIABLES
    sessionRows,          \* chat_sessions / user_sessions: session id -> user_id, or NoRow
    messageRows,          \* chat_messages / session_messages: [id, session_id, by]
    selected              \* what SELECTs returned: [reader, owner] of each row read

rlsVars == <<sessionRows, messageRows, selected>>

(***************************************************************************)
(* The state of the ChatInterface component that decides which controls    *)
(* call sendMessage.                                                       *)
(***************************************************************************)
VARIABLES
    inputMessage,         \* useState(''): the text of the input, as characters
    isRecording,          \* useState(false)
    showQuickReplies      \* useState(true)

uiVars == <<inputMessage, isRecording, showQuickReplies>>

(***************************************************************************)
(* The browser around the hook: its clock, and what the REST endpoints     *)
(* answered to initializeChat.                                             *)
(***************************************************************************)
VARIABLES
    now,                  \* Date.now(), in milliseconds since the page loaded
    httpLog               \* the answers to GET /health and GET /session/{id}/history,
                          \*   kept by HealthResponse and HistoryResponse only

envVars == <<now, httpLog>>

vars == <<chatVars, edgeVars, triggerVars, rlsVars, uiVars, envVars>>

Sessions == {"s1", "s2"}

\* the messages onError is called with
ErrBackend == "Backend service is not available"
ErrLost == "Connection lost. Please refresh the page."
ErrSend == "Failed to send message"
ErrFrame == "error frame"
ErrKinds == {ErrBackend, ErrLost, ErrSend, ErrFrame}

\* what a history item of GET /session/{id}/history carries
HistoryItems == {[ai_response |-> <<>>, content |-> <<"q">>],
                 [ai_response |-> <<"r">>, content |-> <<"q">>]}

RECURSIVE SeqsUpTo(_, _)
SeqsUpTo(S, n) ==
    IF n = 0 THEN {<<>>}
    ELSE LET shorter == SeqsUpTo(S, n - 1)
         IN shorter \cup {Append(s, x) : s \in shorter, x \in S}

Histories == SeqsUpTo(HistoryItems, 2)

ShortHistories == SeqsUpTo(HistoryItems, 1)

\* the contents sendMessage is called with: characters, blank or not
Contents == {<<>>, <<" ">>, <<" ", "a">>}

RECURSIVE TrimLeft(_)
TrimLeft(s) ==
    IF s = <<>> THEN s
    ELSE IF Head(s) = " " THEN TrimLeft(Tail(s)) ELSE s

RECURSIVE TrimRight(_)
TrimRight(s) ==
    IF s = <<>> THEN s
    ELSE IF s[Len(s)] = " " THEN TrimRight(SubSeq(s, 1, Len(s) - 1)) ELSE s

\* String.prototype.trim
Trim(s) == TrimRight(TrimLeft(s))

(***************************************************************************)
(* attemptReconnect's test and delay, sendMessage's choice of transport    *)
(* and the history load.  A definition named Mut... is a faulty variant of *)
(* the definition that follows it.                                         *)
(***************************************************************************)
MutCanReconnectInclusive(n) == n <= maxReconnectAttempts

MutCanReconnectAlways(n) == TRUE

CanReconnect(n) == n < maxReconnectAttempts

MutDelayUncapped(n) == 1000 * Pow2(n)

ReconnectDelay(n) == Min(1000 * Pow2(n), 30000)

\* sendMessage's choice of transport: wsRef.current && readyState === OPEN
MutUseWebSocketAnySocket(ref, socks) == ref # 0 /\ socks[ref].state # "CLOSED"

UseWebSocket(ref, socks) == ref # 0 /\ socks[ref].state = "OPEN"

\* the reactions of addReaction's reactionType
ReactionTypes == {"helpful", "insightful", "supportive"}

\* reactions: { helpful: 0, insightful: 0, supportive: 0 }
NoReactions == [r \in ReactionTypes |-> 0]

\* Date.now().toString() and (Date.now() + 1).toString(): the digits of the
\* number, told apart from the `history-${index}` ids by the first component
ClockId(ms) == <<"ms", ms>>

\* item.ai_response || item.content
HistoryContent(item) ==
    IF item.ai_response # <<>> THEN item.ai_response ELSE item.content

\* history.map((item, index) => ({id: `history-${index}`, ...}))
FormatHistory(history) ==
    [i \in 1..Len(history) |->
        [id |-> <<"history", i - 1>>,
         content |-> HistoryContent(history[i]),
         sender |-> "ai",
         suggestions |-> FALSE,
         reactions |-> NoReactions,
         userReaction |-> ""]]

MutSetHistoryAppend(prev, formatted) == prev \o formatted

\* setMessages(formattedHistory)
SetHistory(prev, formatted) == formatted

\* what fetch gives for a GET: it rejects (threw), or it resolves with a
\* response that is ok or not and has a JSON body
Answer(threw, ok, body) == [threw |-> threw, ok |-> ok, body |-> body]

HealthAnswers ==
    {Answer(TRUE, FALSE, <<>>), Answer(FALSE, FALSE, <<>>),
     Answer(FALSE, TRUE, <<>>)}

\* the bodies of GET /session/{id}/history: with a history, or without one
HistoryBodies ==
    {[history |-> <<item>>] : item \in HistoryItems}
    \cup {[detail |-> "Not Found"]}

HistoryAnswers ==
    {Answer(TRUE, FALSE, <<>>)}
    \cup {Answer(FALSE, ok, b) : ok \in BOOLEAN, b \in HistoryBodies}

MutCheckHealthRejectIsHealthy(answer) == answer.threw \/ answer.ok

\* ApiService.checkHealth: response.ok, and false when fetch rejects
CheckHealth(answer) == IF answer.threw THEN FALSE ELSE answer.ok

\* ApiService.getSessionHistory: data.history || [], and [] from the catch
\* when fetch rejects or the response is not ok
GetSessionHistory(answer) ==
    IF answer.threw \/ ~answer.ok THEN <<>>
    ELSE IF "history" \in DOMAIN answer.body THEN answer.body.history
    ELSE <<>>

\* onError?.(msg), which ChatInterface passes as (error) => setConnectionError(error)
OnError(msg) ==
    /\ errors' = [errors EXCEPT ![msg] = @ + 1]
    /\ connectionError' = msg

InitHook ==
    /\ sessionId = "s1"
    /\ mounted = "no"
    /\ inits = <<>>
    /\ messages = <<>>
    /\ messageCount = 0
    /\ isTyping = FALSE
    /\ isConnected = FALSE
    /\ wsRef = 0
    /\ sockets = <<>>
    /\ timers = <<>>
    /\ reconnectTimeoutRef = 0
    /\ reconnectAttempts = 0
    /\ errors = [k \in ErrKinds |-> 0]
    /\ posts = <<>>
    /\ wsFrames = 0
    /\ runScheduled = 0
    /\ lastDelay = 0
    /\ loaded = <<>>
    /\ nInputs = 0
    /\ caught = 0
    /\ frameLog = <<>>
    /\ connectionError = ""

(***************************************************************************)
(* The hook's functions.  Each is the effect of one call on the state it   *)
(* touches; the actions below put them together.                           *)
(***************************************************************************)

\* connectWebSocket: wsRef.current = apiService.createWebSocketConnection(sid)
ConnectWebSocket(sid) ==
    /\ sockets' = Append(sockets, [state |-> "CONNECTING", sid |-> sid])
    /\ wsRef' = Len(sockets) + 1

MutAttemptReconnectSilent(sid) ==
    IF CanReconnect(reconnectAttempts)
    THEN /\ reconnectAttempts' = reconnectAttempts + 1
         /\ timers' = Append(timers,
                [delay |-> ReconnectDelay(reconnectAttempts + 1),
                 sid |-> sid, status |-> "pending"])
         /\ reconnectTimeoutRef' = Len(timers) + 1
         /\ runScheduled' = runScheduled + 1
         /\ lastDelay' = ReconnectDelay(reconnectAttempts + 1)
         /\ UNCHANGED <<errors, connectionError>>
    ELSE UNCHANGED <<reconnectAttempts, timers, reconnectTimeoutRef,
                     runScheduled, lastDelay, errors, connectionError>>

\* attemptReconnect, called by the onclose handler of a socket of session sid
AttemptReconnect(sid) ==
    IF CanReconnect(reconnectAttempts)
    THEN /\ reconnectAttempts' = reconnectAttempts + 1
         /\ timers' = Append(timers,
                [delay |-> ReconnectDelay(reconnectAttempts + 1),
                 sid |-> sid, status |-> "pending"])
         /\ reconnectTimeoutRef' = Len(timers) + 1
         /\ runScheduled' = runScheduled + 1
         /\ lastDelay' = ReconnectDelay(reconnectAttempts + 1)
         /\ UNCHANGED <<errors, connectionError>>
    ELSE /\ OnError(ErrLost)
         /\ UNCHANGED <<reconnectAttempts, timers, reconnectTimeoutRef,
                        runScheduled, lastDelay>>

\* WebSocket.close(): a socket that is CONNECTING or OPEN starts closing
CloseSocket(socks, ref) ==
    IF ref # 0 /\ socks[ref].state \in {"CONNECTING", "OPEN"}
    THEN [socks EXCEPT ![ref].state = "CLOSING"]
    ELSE socks

\* a socket that closed, a timer that fired or was cleared: no callback of it
\* runs again, and nothing reads what it was made with
DeadSocket == [state |-> "CLOSED", sid |-> "-"]

DeadTimer == [delay |-> 0, sid |-> "-", status |-> "done"]

\* clearTimeout: a pending timer never fires; a fired one is left alone
ClearTimer(tms, ref) ==
    IF ref # 0 /\ tms[ref].status = "pending"
    THEN [tms EXCEPT ![ref] = DeadTimer]
    ELSE tms

\* cleanup
Cleanup ==
    /\ sockets' = CloseSocket(sockets, wsRef)
    /\ timers' = ClearTimer(timers, reconnectTimeoutRef)

\* connectWebSocket when createWebSocketConnection throws (new WebSocket(url)
\* rejects the URL): the catch logs, setIsConnected(false)
ConnectWebSocketThrows ==
    /\ isConnected' = FALSE
    /\ caught' = caught + 1
    /\ UNCHANGED <<sockets, wsRef>>

\* the first statement of initializeChat: the health check is requested
StartInitializeChat(sid) ==
    inits' = Append(inits, [pc |-> "health", sid |-> sid])

\* the user's message: no reactions, no userReaction
UserMessage(c) ==
    [id |-> ClockId(now), content |-> c, sender |-> "user",
     suggestions |-> FALSE]

\* what the hook reads of a ChatResponse payload (the JSON of a REST response
\* or the data of a chat_response frame): suggestions (whether the list is
\* there and not empty) and, since the payload is spread into the message
\* and only id, sender, timestamp and reactions are overwritten, a
\* userReaction field the payload may carry ("" when it has none)
Reply(suggestions, userReaction) ==
    [content |-> <<"r">>, suggestions |-> suggestions,
     userReaction |-> userReaction]

\* {...response, id, sender: 'ai', timestamp, reactions: {0, 0, 0}} and
\* {...data.data, id, sender: 'ai', timestamp, reactions: {0, 0, 0}}
AiMessage(id, data) ==
    [id |-> id, content |-> data.content, sender |-> "ai",
     suggestions |-> data.suggestions, reactions |-> NoReactions,
     userReaction |-> data.userReaction]

RemoveAt(s, i) == SubSeq(s, 1, i - 1) \o SubSeq(s, i + 1, Len(s))

(***************************************************************************)
(* The actions: React running the effect, and the browser's callbacks.     *)
(***************************************************************************)

\* useEffect on the first render: initializeChat()
Mount ==
    /\ mounted = "no"
    /\ mounted' = "yes"
    /\ StartInitializeChat(sessionId)
    /\ UNCHANGED <<sessionId, messages, messageCount, isTyping, isConnected,
                   wsRef, sockets, timers, reconnectTimeoutRef,
                   reconnectAttempts, errors, posts, wsFrames, runScheduled,
                   lastDelay, loaded, nInputs, connectionError, caught>>
    /\ UNCHANGED <<frameLog, edgeVars, triggerVars, rlsVars, uiVars, envVars>>

\* useEffect when sessionId changed: cleanup() of the old effect, then initializeChat()
SessionChange(sid) ==
    /\ mounted = "yes"
    /\ sid # sessionId
    /\ sessionId' = sid
    /\ Cleanup
    /\ StartInitializeChat(sid)
    /\ UNCHANGED <<mounted, messages, messageCount, isTyping, isConnected,
                   wsRef, reconnectTimeoutRef, reconnectAttempts, errors,
                   posts, wsFrames, runScheduled, lastDelay, loaded,
                   nInputs, connectionError, caught>>
    /\ UNCHANGED <<frameLog, edgeVars, triggerVars, rlsVars, uiVars, envVars>>

\* the component unmounts: cleanup()
Unmount ==
    /\ mounted = "yes"
    /\ mounted' = "gone"
    /\ Cleanup
    /\ UNCHANGED <<sessionId, inits, messages, messageCount, isTyping,
                   isConnected, wsRef, reconnectTimeoutRef, reconnectAttempts,
                   errors, posts, wsFrames, runScheduled, lastDelay, loaded,
                   nInputs, connectionError, caught>>
    /\ UNCHANGED <<frameLog, edgeVars, triggerVars, rlsVars, uiVars, envVars>>

\* initializeChat after await apiService.checkHealth(): what it does to the
\* hook's state
AfterCheckHealth(i, isHealthy) ==
    /\ inits[i].pc = "health"
    /\ IF isHealthy
       THEN /\ inits' = [inits EXCEPT ![i].pc = "history"]
            /\ UNCHANGED <<errors, connectionError>>
       ELSE /\ inits' = [inits EXCEPT ![i].pc = "failed"]
            /\ OnError(ErrBackend)
    /\ caught' = IF isHealthy THEN caught ELSE caught + 1
    /\ UNCHANGED <<sessionId, mounted, messages, messageCount, isTyping,
                   isConnected, wsRef, sockets, timers, reconnectTimeoutRef,
                   reconnectAttempts, posts, wsFrames, runScheduled, lastDelay,
                   loaded, nInputs>>
    /\ UNCHANGED <<frameLog, edgeVars, triggerVars, rlsVars, uiVars>>

\* that continuation, with checkHealth's result given
HealthResult(i, isHealthy) ==
    AfterCheckHealth(i, isHealthy) /\ UNCHANGED envVars

\* that continuation, with the answer to GET /health given and logged
HealthResponse(i, answer) ==
    /\ AfterCheckHealth(i, CheckHealth(answer))
    /\ httpLog' = Append(httpLog,
          [endpoint |-> "health", init |-> i, answer |-> answer])
    /\ UNCHANGED now

\* initializeChat after await apiService.getSessionHistory(sessionId), to its
\* end: what it does to the hook's state
AfterGetSessionHistory(i, history) ==
    /\ inits[i].pc = "history"
    /\ inits' = [inits EXCEPT ![i].pc = "done"]
    /\ IF Len(history) > 0
       THEN /\ messages' = SetHistory(messages, FormatHistory(history))
            /\ messageCount' = Len(history)
            /\ loaded' = history
       ELSE UNCHANGED <<messages, messageCount, loaded>>
    /\ ConnectWebSocket(inits[i].sid)
    /\ UNCHANGED <<sessionId, mounted, isTyping, isConnected, timers,
                   reconnectTimeoutRef, reconnectAttempts, errors, posts,
                   wsFrames, runScheduled, lastDelay, nInputs,
                   connectionError, caught>>
    /\ UNCHANGED <<frameLog, edgeVars, triggerVars, rlsVars, uiVars>>

\* that continuation, with getSessionHistory's result given
HistoryResult(i, history) ==
    AfterGetSessionHistory(i, history) /\ UNCHANGED envVars

\* that continuation, with the answer to GET /session/{id}/history given and
\* logged
HistoryResponse(i, answer) ==
    /\ AfterGetSessionHistory(i, GetSessionHistory(answer))
    /\ httpLog' = Append(httpLog,
          [endpoint |-> "history", init |-> i, answer |-> answer])
    /\ UNCHANGED now

\* the same continuation when connectWebSocket's try block throws
HistoryResultThrows(i, history) ==
    /\ inits[i].pc = "history"
    /\ inits' = [inits EXCEPT ![i].pc = "done"]
    /\ IF Len(history) > 0
       THEN /\ messages' = SetHistory(messages, FormatHistory(history))
            /\ messageCount' = Len(history)
            /\ loaded' = history
       ELSE UNCHANGED <<messages, messageCount, loaded>>
    /\ ConnectWebSocketThrows
    /\ UNCHANGED <<sessionId, mounted, isTyping, timers, reconnectTimeoutRef,
                   reconnectAttempts, errors, posts, wsFrames, runScheduled,
                   lastDelay, nInputs, connectionError>>
    /\ UNCHANGED <<frameLog, edgeVars, triggerVars, rlsVars, uiVars, envVars>>

MutWsOpenKeepsCounter(s) ==
    /\ sockets[s].state = "CONNECTING"
    /\ sockets' = [sockets EXCEPT ![s].state = "OPEN"]
    /\ isConnected' = TRUE
    /\ UNCHANGED reconnectAttempts
    /\ runScheduled' = 0
    /\ connectionError' = ""
    /\ UNCHANGED <<sessionId, mounted, inits, messages, messageCount, isTyping,
                   wsRef, timers, reconnectTimeoutRef, errors, posts, wsFrames,
                   lastDelay, loaded, nInputs, caught>>
    /\ UNCHANGED <<frameLog, edgeVars, triggerVars, rlsVars, uiVars, envVars>>

\* the connection is established: readyState OPEN, onopen; ChatInterface's
\* onConnectionChange(true) clears the banner
WsOpen(s) ==
    /\ sockets[s].state = "CONNECTING"
    /\ sockets' = [sockets EXCEPT ![s].state = "OPEN"]
    /\ isConnected' = TRUE
    /\ reconnectAttempts' = 0
    /\ runScheduled' = 0
    /\ connectionError' = ""
    /\ UNCHANGED <<sessionId, mounted, inits, messages, messageCount, isTyping,
                   wsRef, timers, reconnectTimeoutRef, errors, posts, wsFrames,
                   lastDelay, loaded, nInputs, caught>>
    /\ UNCHANGED <<frameLog, edgeVars, triggerVars, rlsVars, uiVars, envVars>>

\* the connection fails or ends: readyState CLOSED, onerror (when it failed)
\* and then onclose, which calls attemptReconnect
WsClose(s) ==
    /\ sockets[s].state \in {"CONNECTING", "OPEN", "CLOSING"}
    /\ sockets' = [sockets EXCEPT ![s] = DeadSocket]
    /\ isConnected' = FALSE
    /\ AttemptReconnect(sockets[s].sid)
    /\ UNCHANGED <<sessionId, mounted, inits, messages, messageCount, isTyping,
                   wsRef, posts, wsFrames, loaded, nInputs, caught>>
    /\ UNCHANGED <<frameLog, edgeVars, triggerVars, rlsVars, uiVars, envVars>>

\* the callback of attemptReconnect's setTimeout: connectWebSocket()
TimerFire(t) ==
    /\ timers[t].status = "pending"
    /\ timers' = [timers EXCEPT ![t] = DeadTimer]
    /\ ConnectWebSocket(timers[t].sid)
    /\ UNCHANGED <<sessionId, mounted, inits, messages, messageCount, isTyping,
                   isConnected, reconnectTimeoutRef, reconnectAttempts, errors,
                   posts, wsFrames, runScheduled, lastDelay, loaded,
                   nInputs, connectionError, caught>>
    /\ UNCHANGED <<frameLog, edgeVars, triggerVars, rlsVars, uiVars, envVars>>

\* the same callback when connectWebSocket's try block throws
TimerFireThrows(t) ==
    /\ timers[t].status = "pending"
    /\ timers' = [timers EXCEPT ![t] = DeadTimer]
    /\ ConnectWebSocketThrows
    /\ UNCHANGED <<sessionId, mounted, inits, messages, messageCount, isTyping,
                   reconnectTimeoutRef, reconnectAttempts, errors, posts,
                   wsFrames, runScheduled, lastDelay, loaded, nInputs,
                   connectionError>>
    /\ UNCHANGED <<frameLog, edgeVars, triggerVars, rlsVars, uiVars, envVars>>

\* sendMessage with blank content: if (!content.trim()) return
SendBlank(c) ==
    /\ mounted = "yes"
    /\ Trim(c) = <<>>
    /\ UNCHANGED chatVars
    /\ UNCHANGED <<edgeVars, triggerVars, rlsVars, uiVars, envVars>>

MutSendMessageBoth(c) ==
    /\ mounted = "yes"
    /\ Trim(c) # <<>>
    /\ nInputs' = nInputs + 1
    /\ messages' = Append(messages, UserMessage(c))
    /\ messageCount' = messageCount + 1
    /\ isTyping' = TRUE
    /\ wsFrames' = IF UseWebSocket(wsRef, sockets) THEN wsFrames + 1 ELSE wsFrames
    /\ posts' = Append(posts, [session_id |-> sessionId])
    /\ UNCHANGED <<sessionId, mounted, inits, isConnected, wsRef, sockets,
                   timers, reconnectTimeoutRef, reconnectAttempts, errors,
                   runScheduled, lastDelay, loaded, connectionError, caught,
                   frameLog>>

\* sendMessage with non-blank content, up to its await (or its end, by
\* socket): what the call does to the hook's state
SendMessage(c) ==
    /\ mounted = "yes"
    /\ Trim(c) # <<>>
    /\ nInputs' = nInputs + 1
    /\ messages' = Append(messages, UserMessage(c))
    /\ messageCount' = messageCount + 1
    /\ isTyping' = TRUE
    /\ IF UseWebSocket(wsRef, sockets)
       THEN /\ wsFrames' = wsFrames + 1
            /\ UNCHANGED posts
       ELSE /\ posts' = Append(posts, [session_id |-> sessionId])
            /\ UNCHANGED wsFrames
    /\ UNCHANGED <<sessionId, mounted, inits, isConnected, wsRef, sockets,
                   timers, reconnectTimeoutRef, reconnectAttempts, errors,
                   runScheduled, lastDelay, loaded, connectionError, caught,
                   frameLog>>

\* sendMessage called by a component that keeps no state of its own
SendMessageCalled(c) ==
    /\ SendMessage(c)
    /\ UNCHANGED <<edgeVars, triggerVars, rlsVars, uiVars, envVars>>

MutRestResponseKeepsCount(p, ok, data) ==
    /\ p \in 1..Len(posts)
    /\ posts' = RemoveAt(posts, p)
    /\ isTyping' = FALSE
    /\ IF ok
       THEN /\ messages' = Append(messages, AiMessage(ClockId(now + 1), data))
            /\ UNCHANGED <<messageCount, errors, connectionError>>
       ELSE /\ OnError(ErrSend)
            /\ UNCHANGED <<messages, messageCount>>
    /\ caught' = IF ok THEN caught ELSE caught + 1
    /\ UNCHANGED <<sessionId, mounted, inits, isConnected, wsRef, sockets,
                   timers, reconnectTimeoutRef, reconnectAttempts, wsFrames,
                   runScheduled, lastDelay, loaded, nInputs>>
    /\ UNCHANGED <<frameLog, edgeVars, triggerVars, rlsVars, uiVars, envVars>>

\* sendMessage after await apiService.sendMessage(...): the response, or the throw
RestResponse(p, ok, data) ==
    /\ p \in 1..Len(posts)
    /\ posts' = RemoveAt(posts, p)
    /\ isTyping' = FALSE
    /\ IF ok
       THEN /\ messages' = Append(messages, AiMessage(ClockId(now + 1), data))
            /\ messageCount' = messageCount + 1
            /\ UNCHANGED <<errors, connectionError>>
       ELSE /\ OnError(ErrSend)
            /\ UNCHANGED <<messages, messageCount>>
    /\ caught' = IF ok THEN caught ELSE caught + 1
    /\ UNCHANGED <<sessionId, mounted, inits, isConnected, wsRef, sockets,
                   timers, reconnectTimeoutRef, reconnectAttempts, wsFrames,
                   runScheduled, lastDelay, loaded, nInputs>>
    /\ UNCHANGED <<frameLog, edgeVars, triggerVars, rlsVars, uiVars, envVars>>

FrameTypes == {"chat_response", "typing_on", "typing_off", "error", "other"}

MutHandleWebSocketMessageKeepsTyping(type, data) ==
    CASE type = "chat_response" ->
           /\ messages' = Append(messages, AiMessage(ClockId(now), data))
           /\ messageCount' = messageCount + 1
           /\ UNCHANGED <<isTyping, errors, connectionError>>
      [] type = "typing_on" ->
           /\ isTyping' = TRUE
           /\ UNCHANGED <<messages, messageCount, errors, connectionError>>
      [] type = "typing_off" ->
           /\ isTyping' = FALSE
           /\ UNCHANGED <<messages, messageCount, errors, connectionError>>
      [] type = "error" ->
           /\ OnError(ErrFrame)
           /\ isTyping' = FALSE
           /\ UNCHANGED <<messages, messageCount>>
      [] OTHER ->
           UNCHANGED <<messages, messageCount, isTyping, errors,
                       connectionError>>

\* handleWebSocketMessage(data), by data.type (typing: by data.isTyping)
HandleWebSocketMessage(type, data) ==
    CASE type = "chat_response" ->
           /\ messages' = Append(messages, AiMessage(ClockId(now), data))
           /\ isTyping' = FALSE
           /\ messageCount' = messageCount + 1
           /\ UNCHANGED <<errors, connectionError>>
      [] type = "typing_on" ->
           /\ isTyping' = TRUE
           /\ UNCHANGED <<messages, messageCount, errors, connectionError>>
      [] type = "typing_off" ->
           /\ isTyping' = FALSE
           /\ UNCHANGED <<messages, messageCount, errors, connectionError>>
      [] type = "error" ->
           /\ OnError(ErrFrame)
           /\ isTyping' = FALSE
           /\ UNCHANGED <<messages, messageCount>>
      [] OTHER ->
           UNCHANGED <<messages, messageCount, isTyping, errors,
                       connectionError>>

\* onmessage of an open socket: JSON.parse and handleWebSocketMessage
OnMessage(s, type, data) ==
    /\ sockets[s].state = "OPEN"
    /\ nInputs' = nInputs + 1
    /\ HandleWebSocketMessage(type, data)
    /\ UNCHANGED <<sessionId, mounted, inits, isConnected, wsRef, sockets,
                   timers, reconnectTimeoutRef, reconnectAttempts, posts,
                   wsFrames, runScheduled, lastDelay, loaded, caught>>
    /\ UNCHANGED <<edgeVars, triggerVars, rlsVars, uiVars, envVars>>

WsFrame(s, type, data) == OnMessage(s, type, data) /\ UNCHANGED frameLog

\* the same handler with the frame's type written to the log
WsFrameLogged(s, type, data) ==
    OnMessage(s, type, data) /\ frameLog' = Append(frameLog, type)

\* onmessage with data JSON.parse rejects: the catch logs
WsFrameInvalid(s) ==
    /\ sockets[s].state = "OPEN"
    /\ nInputs' = nInputs + 1
    /\ caught' = caught + 1
    /\ UNCHANGED <<sessionId, mounted, inits, messages, messageCount, isTyping,
                   isConnected, wsRef, sockets, timers, reconnectTimeoutRef,
                   reconnectAttempts, errors, posts, wsFrames, runScheduled,
                   lastDelay, loaded, connectionError>>
    /\ UNCHANGED <<frameLog, edgeVars, triggerVars, rlsVars, uiVars, envVars>>

\* addReaction's function of one message: a message with the id and with
\* reactions loses the count of its userReaction, if it has one, and gets the
\* new reaction unless it is the one it had
ReactTo(msg, messageId, reactionType) ==
    IF msg.id = messageId /\ "reactions" \in DOMAIN msg
    THEN LET newReactions ==
                 IF msg.userReaction # ""
                 THEN [msg.reactions EXCEPT ![msg.userReaction] = @ - 1]
                 ELSE msg.reactions
         IN  IF msg.userReaction # reactionType
             THEN [msg EXCEPT
                      !.reactions = [newReactions EXCEPT ![reactionType] = @ + 1],
                      !.userReaction = reactionType]
             ELSE [msg EXCEPT !.reactions = newReactions, !.userReaction = ""]
    ELSE msg

\* addReaction(messageId, reactionType): setMessages(prev => prev.map(...))
AddReaction(messageId, reactionType) ==
    /\ mounted = "yes"
    /\ nInputs' = nInputs + 1
    /\ messages' = [i \in 1..Len(messages) |->
                       ReactTo(messages[i], messageId, reactionType)]
    /\ UNCHANGED <<sessionId, mounted, inits, messageCount, isTyping,
                   isConnected, wsRef, sockets, timers, reconnectTimeoutRef,
                   reconnectAttempts, errors, posts, wsFrames, runScheduled,
                   lastDelay, loaded, caught, connectionError>>
    /\ UNCHANGED <<frameLog, edgeVars, triggerVars, rlsVars, uiVars, envVars>>

\* a millisecond passes
Tick ==
    /\ now' = now + 1
    /\ UNCHANGED httpLog
    /\ UNCHANGED <<chatVars, edgeVars, triggerVars, rlsVars, uiVars>>

(***************************************************************************)
(* The chat edge function: supabase/functions/chat/index.ts.               *)
(***************************************************************************)
Users == {"alice", "bob"}

\* the user each session belongs to
SessionOwner == [s \in Sessions |-> IF s = "s1" THEN "alice" ELSE "bob"]

\* the Authorization header: absent, a token auth.getUser rejects, a user's token
Tokens == {"none", "bad"} \cup Users

\* the requests sent to the function
EdgeInputs ==
    {[method |-> "OPTIONS", content |-> "", session_id |-> "", token |-> "none"],
     [method |-> "GET", content |-> "", session_id |-> "", token |-> "none"],
     [method |-> "POST", content |-> "", session_id |-> "s1", token |-> "alice"],
     [method |-> "POST", content |-> "hi", session_id |-> "", token |-> "alice"]}
    \cup {[method |-> "POST", content |-> "hi", session_id |-> "s1", token |-> t] :
             t \in Tokens}

\* supabase.auth.getUser(token): the user, unless there is an error or no user
AuthUser(token, ok) == IF ok /\ token \in Users THEN token ELSE "anonymous"

\* .from('messages').insert({...}): the row stored
MessageRow(req, r, sender) ==
    [session_id |-> req.session_id, user_id |-> req.userId,
     sender |-> sender, request |-> r]

\* the bodies of the handler's responses: the preflight text, the AI response,
\* and in the catch JSON.stringify({error: error.message, timestamp: ...})
NoBody == [none |-> ""]

PreflightBody == [text |-> "ok"]

\* generateTherapyResponse(body.content): session_id: Date.now().toString()
\* and timestamp: new Date().toISOString(), readings of the server's clock
AiResponseBody == [content |-> "reply", session_id |-> "now", timestamp |-> "now"]

ErrorBody(message) == [error |-> message, timestamp |-> "now"]

\* corsHeaders, and the headers of the JSON responses
CorsHeaders ==
    {"Access-Control-Allow-Origin", "Access-Control-Allow-Headers",
     "Access-Control-Allow-Methods"}

JsonHeaders == CorsHeaders \cup {"Content-Type"}

ErrMethod == "Method not allowed"

ErrFields == "Missing required fields: content and session_id"

\* response.ok
ResponseOk(status) == status \in 200..299

\* ApiService.sendMessage on a response that is not ok:
\* throw new Error(error.detail || 'Failed to send message')
ThrownMessage(body) ==
    IF "detail" \in DOMAIN body /\ body.detail # ""
    THEN body.detail ELSE ErrSend

InitEdge ==
    /\ requests = <<>>
    /\ rows = <<>>

\* serve(req), to its first await: the preflight answer, the method test
Serve(in) ==
    /\ requests' = Append(requests,
          [method |-> in.method, content |-> in.content,
           session_id |-> in.session_id, token |-> in.token,
           userId |-> "anonymous",
           pc |-> IF in.method = "POST" THEN "body" ELSE "done",
           status |-> IF in.method = "OPTIONS" THEN 200
                      ELSE IF in.method # "POST" THEN 400 ELSE 0,
           headers |-> IF in.method = "OPTIONS" THEN CorsHeaders
                       ELSE IF in.method # "POST" THEN JsonHeaders ELSE {},
           body |-> IF in.method = "OPTIONS" THEN PreflightBody
                    ELSE IF in.method # "POST" THEN ErrorBody(ErrMethod)
                    ELSE NoBody,
           thrown |-> ""])
    /\ UNCHANGED rows
    /\ UNCHANGED <<chatVars, triggerVars, rlsVars, uiVars, envVars>>

MutReadBodyContentOnly(r) ==
    /\ requests[r].pc = "body"
    /\ requests' =
          IF requests[r].content = ""
          THEN [requests EXCEPT ![r].pc = "done", ![r].status = 400,
                                ![r].headers = JsonHeaders,
                                ![r].body = ErrorBody(ErrFields)]
          ELSE IF requests[r].token = "none"
          THEN [requests EXCEPT ![r].pc = "insertUser"]
          ELSE [requests EXCEPT ![r].pc = "auth"]
    /\ UNCHANGED rows
    /\ UNCHANGED <<chatVars, triggerVars, rlsVars, uiVars, envVars>>

\* after await req.json(): the required fields, the Authorization header
ReadBody(r) ==
    /\ requests[r].pc = "body"
    /\ requests' =
          IF requests[r].content = "" \/ requests[r].session_id = ""
          THEN [requests EXCEPT ![r].pc = "done", ![r].status = 400,
                                ![r].headers = JsonHeaders,
                                ![r].body = ErrorBody(ErrFields)]
          ELSE IF requests[r].token = "none"
          THEN [requests EXCEPT ![r].pc = "insertUser"]
          ELSE [requests EXCEPT ![r].pc = "auth"]
    /\ UNCHANGED rows
    /\ UNCHANGED <<chatVars, triggerVars, rlsVars, uiVars, envVars>>

\* after await supabase.auth.getUser(token)
GetUser(r, ok) ==
    /\ requests[r].pc = "auth"
    /\ requests' = [requests EXCEPT ![r].pc = "insertUser",
                                    ![r].userId = AuthUser(requests[r].token, ok)]
    /\ UNCHANGED rows
    /\ UNCHANGED <<chatVars, triggerVars, rlsVars, uiVars, envVars>>

\* the first insert settles: the row is stored, or messageError is logged
InsertUserMessage(r, stored) ==
    /\ requests[r].pc = "insertUser"
    /\ rows' = IF stored THEN Append(rows, MessageRow(requests[r], r, "user"))
               ELSE rows
    /\ requests' = [requests EXCEPT ![r].pc = "insertAi"]
    /\ UNCHANGED <<chatVars, triggerVars, rlsVars, uiVars, envVars>>

\* the second insert settles (the row, or aiMessageError logged); the answer
InsertAiMessage(r, stored) ==
    /\ requests[r].pc = "insertAi"
    /\ rows' = IF stored THEN Append(rows, MessageRow(requests[r], r, "ai"))
               ELSE rows
    /\ requests' = [requests EXCEPT ![r].pc = "done", ![r].status = 200,
                                    ![r].headers = JsonHeaders,
                                    ![r].body = AiResponseBody]
    /\ UNCHANGED <<chatVars, triggerVars, rlsVars, uiVars, envVars>>

\* ApiService.sendMessage, the caller of a POST, after await fetch(...): the
\* response data is returned, or an Error is thrown
ApiSendMessage(r) ==
    /\ requests[r].pc = "done"
    /\ requests[r].method = "POST"
    /\ requests' = [requests EXCEPT
          ![r].pc = "settled",
          ![r].thrown = IF ResponseOk(requests[r].status) THEN ""
                        ELSE ThrownMessage(requests[r].body)]
    /\ UNCHANGED rows
    /\ UNCHANGED <<chatVars, triggerVars, rlsVars, uiVars, envVars>>

(***************************************************************************)
(* update_message_count_trigger: AFTER INSERT ON chat_messages FOR EACH    *)
(* ROW.  Under READ COMMITTED the trigger's UPDATE counts the rows its     *)
(* statement snapshot shows (the committed ones and the transaction's      *)
(* own), waits for the chat_sessions row while another transaction holds   *)
(* its lock, and then writes the count it took.                            *)
(***************************************************************************)
Txs == 1..MaxTx

\* the committed rows of chat_messages of session s, by inserting transaction
CommittedMessages(s) ==
    {t \in Txs : tx[t].pc = "committed" /\ tx[t].session_id = s}

\* SELECT COUNT(*) FROM chat_messages WHERE session_id = NEW.session_id,
\* evaluated by transaction t, which has inserted its row
CountMessages(t, s) == Cardinality(CommittedMessages(s) \cup {t})

InitTrigger ==
    /\ tx = [t \in Txs |-> [pc |-> "idle", session_id |-> "-", counted |-> 0]]
    /\ message_count = [s \in Sessions |-> 0]
    /\ rowLock = [s \in Sessions |-> 0]
    /\ newCount = [s \in Sessions |-> 0]

\* INSERT INTO chat_messages; the trigger's UPDATE starts and takes its snapshot
TxInsert(t, s) ==
    /\ tx[t].pc = "idle"
    /\ tx' = [tx EXCEPT ![t] = [pc |-> "trigger", session_id |-> s,
                                counted |-> CountMessages(t, s)]]
    /\ UNCHANGED <<message_count, rowLock, newCount>>
    /\ UNCHANGED <<chatVars, edgeVars, rlsVars, uiVars, envVars>>

\* the trigger's UPDATE gets the chat_sessions row and sets message_count
TxTriggerUpdate(t) ==
    /\ tx[t].pc = "trigger"
    /\ rowLock[tx[t].session_id] = 0
    /\ rowLock' = [rowLock EXCEPT ![tx[t].session_id] = t]
    /\ newCount' = [newCount EXCEPT ![tx[t].session_id] = tx[t].counted]
    /\ tx' = [tx EXCEPT ![t].pc = "updated"]
    /\ UNCHANGED message_count
    /\ UNCHANGED <<chatVars, edgeVars, rlsVars, uiVars, envVars>>

\* COMMIT
TxCommit(t) ==
    /\ tx[t].pc = "updated"
    /\ message_count' = [message_count EXCEPT
                            ![tx[t].session_id] = newCount[tx[t].session_id]]
    /\ rowLock' = [rowLock EXCEPT ![tx[t].session_id] = 0]
    /\ tx' = [tx EXCEPT ![t].pc = "committed"]
    /\ UNCHANGED newCount
    /\ UNCHANGED <<chatVars, edgeVars, rlsVars, uiVars, envVars>>

\* ROLLBACK: the inserted row and the update are dropped
TxRollback(t) ==
    /\ tx[t].pc \in {"trigger", "updated"}
    /\ rowLock' = IF tx[t].pc = "updated"
                  THEN [rowLock EXCEPT ![tx[t].session_id] = 0]
                  ELSE rowLock
    /\ tx' = [tx EXCEPT ![t].pc = "aborted"]
    /\ UNCHANGED <<message_count, newCount>>
    /\ UNCHANGED <<chatVars, edgeVars, rlsVars, uiVars, envVars>>

(***************************************************************************)
(* The row-level-security policies of chat_sessions / chat_messages        *)
(* (migration 20250625073920) and user_sessions / session_messages         *)
(* (supabase_schema.sql).  uid is auth.uid(): a user, or NullUid for a     *)
(* caller that is not signed in.                                           *)
(***************************************************************************)
NullUid == "null"

Callers == Users \cup {NullUid}

NoRow == "none"

\* FOR SELECT USING (auth.uid() = user_id)
SessionSelectUsing(uid, user_id) == uid = user_id

\* FOR INSERT WITH CHECK (auth.uid() = user_id)
SessionInsertCheck(uid, user_id) == uid = user_id

\* FOR UPDATE USING (auth.uid() = user_id), on the row as it is
SessionUpdateUsing(uid, user_id) == uid = user_id

\* FOR UPDATE WITH CHECK (auth.uid() = user_id), on the row as updated; where
\* the clause is left out the USING expression is applied to the new row
SessionUpdateCheck(uid, user_id) == uid = user_id

\* FOR DELETE USING (auth.uid() = user_id)
SessionDeleteUsing(uid, user_id) == uid = user_id

\* FOR SELECT USING (EXISTS (SELECT 1 FROM chat_sessions WHERE id = session_id
\* AND user_id = auth.uid()))
MessageSelectUsing(uid, session_id, sess) ==
    sess[session_id] # NoRow /\ sess[session_id] = uid

MutMessageInsertCheckAnySession(uid, session_id, sess) ==
    sess[session_id] # NoRow /\ uid # NullUid

\* FOR INSERT WITH CHECK (EXISTS (SELECT 1 FROM chat_sessions WHERE id =
\* session_id AND user_id = auth.uid()))
MessageInsertCheck(uid, session_id, sess) ==
    sess[session_id] # NoRow /\ sess[session_id] = uid

MessagesOfSession(s) == {m \in messageRows : m.session_id = s}

FreeMessageIds == {i \in 1..MaxMessageRows : \A m \in messageRows : m.id # i}

InitRLS ==
    /\ sessionRows = [s \in Sessions |-> NoRow]
    /\ messageRows = {}
    /\ selected = {}

\* INSERT INTO chat_sessions (id, user_id): the policy, the primary key
RlsInsertSession(uid, s, user_id) ==
    /\ SessionInsertCheck(uid, user_id)
    /\ sessionRows[s] = NoRow
    /\ sessionRows' = [sessionRows EXCEPT ![s] = user_id]
    /\ UNCHANGED <<messageRows, selected>>
    /\ UNCHANGED <<chatVars, edgeVars, triggerVars, uiVars, envVars>>

\* UPDATE chat_sessions SET id = s2, user_id = ... WHERE id = s: the policy, the
\* primary key, and the foreign key of the messages (no ON UPDATE action)
RlsUpdateSession(uid, s, s2, user_id) ==
    /\ sessionRows[s] # NoRow
    /\ SessionUpdateUsing(uid, sessionRows[s])
    /\ SessionUpdateCheck(uid, user_id)
    /\ s2 # s => sessionRows[s2] = NoRow /\ MessagesOfSession(s) = {}
    /\ <<s2, user_id>> # <<s, sessionRows[s]>>
    /\ sessionRows' = [[sessionRows EXCEPT ![s] = NoRow] EXCEPT ![s2] = user_id]
    /\ UNCHANGED <<messageRows, selected>>
    /\ UNCHANGED <<chatVars, edgeVars, triggerVars, uiVars, envVars>>

\* DELETE FROM chat_sessions WHERE id = s: the policy; ON DELETE CASCADE
RlsDeleteSession(uid, s) ==
    /\ sessionRows[s] # NoRow
    /\ SessionDeleteUsing(uid, sessionRows[s])
    /\ sessionRows' = [sessionRows EXCEPT ![s] = NoRow]
    /\ messageRows' = messageRows \ MessagesOfSession(s)
    /\ UNCHANGED selected
    /\ UNCHANGED <<chatVars, edgeVars, triggerVars, uiVars, envVars>>

\* INSERT INTO chat_messages (session_id, ...): the foreign key, the policy
RlsInsertMessage(uid, s) ==
    /\ sessionRows[s] # NoRow
    /\ MessageInsertCheck(uid, s, sessionRows)
    /\ FreeMessageIds # {}
    /\ messageRows' = messageRows \cup
          {[id |-> CHOOSE i \in FreeMessageIds : \A j \in FreeMessageIds : i <= j,
            session_id |-> s, by |-> uid]}
    /\ UNCHANGED <<sessionRows, selected>>
    /\ UNCHANGED <<chatVars, edgeVars, triggerVars, uiVars, envVars>>

\* SELECT * FROM chat_messages: the rows the policy lets through
RlsSelectMessages(uid) ==
    /\ selected' = selected \cup
          {[reader |-> uid, owner |-> sessionRows[m.session_id]] :
              m \in {r \in messageRows :
                        MessageSelectUsing(uid, r.session_id, sessionRows)}}
    /\ selected' # selected
    /\ UNCHANGED <<sessionRows, messageRows>>
    /\ UNCHANGED <<chatVars, edgeVars, triggerVars, uiVars, envVars>>

(***************************************************************************)
(* ChatInterface: the controls that reach handleSend.                      *)
(***************************************************************************)
InitInterface ==
    /\ inputMessage = <<>>
    /\ isRecording = FALSE
    /\ showQuickReplies = TRUE

\* the entries of quickReplies, and the text of a suggestion of a reply
QuickReplyTexts == {<<"q">>}

SuggestionText == <<"s">>

\* <input disabled={isTyping || isRecording || !isConnected}>
InputDisabled == isTyping \/ isRecording \/ ~isConnected

\* <button disabled={isTyping || !inputMessage.trim() || !isConnected}>
SendDisabled == isTyping \/ Trim(inputMessage) = <<>> \/ ~isConnected

\* {showQuickReplies && messages.length === 0 && (...)}
QuickRepliesShown == showQuickReplies /\ Len(messages) = 0

\* message.sender === 'ai' && message.suggestions && message.suggestions.length > 0
SuggestionsShown(i) == messages[i].sender = "ai" /\ messages[i].suggestions

\* handleSend(messageText): messageText || inputMessage, the trim test,
\* setInputMessage(''), sendMessage(textToSend, ...)
HandleSend(messageText) ==
    LET textToSend == IF messageText # <<>> THEN messageText ELSE inputMessage
    IN  IF Trim(textToSend) = <<>>
        THEN UNCHANGED <<chatVars, inputMessage>>
        ELSE /\ inputMessage' = <<>>
             /\ SendMessage(textToSend)

\* onChange of the input
TypeInput(c) ==
    /\ mounted = "yes"
    /\ ~InputDisabled
    /\ c # inputMessage
    /\ inputMessage' = c
    /\ UNCHANGED <<isRecording, showQuickReplies>>
    /\ UNCHANGED <<chatVars, edgeVars, triggerVars, rlsVars, envVars>>

\* onClick of the send button: handleSend()
ClickSend ==
    /\ mounted = "yes"
    /\ ~SendDisabled
    /\ HandleSend(<<>>)
    /\ UNCHANGED <<isRecording, showQuickReplies>>
    /\ UNCHANGED <<edgeVars, triggerVars, rlsVars, envVars>>

\* handleKeyPress of the input with Enter: handleSend()
PressEnter ==
    /\ mounted = "yes"
    /\ ~InputDisabled
    /\ HandleSend(<<>>)
    /\ UNCHANGED <<isRecording, showQuickReplies>>
    /\ UNCHANGED <<edgeVars, triggerVars, rlsVars, envVars>>

\* onClick of a quick reply: handleSend(reply)
ClickQuickReply(reply) ==
    /\ mounted = "yes"
    /\ QuickRepliesShown
    /\ HandleSend(reply)
    /\ UNCHANGED <<isRecording, showQuickReplies>>
    /\ UNCHANGED <<edgeVars, triggerVars, rlsVars, envVars>>

\* onClick of a suggestion of message i: handleSend(suggestion)
ClickSuggestion(i) ==
    /\ mounted = "yes"
    /\ SuggestionsShown(i)
    /\ HandleSend(SuggestionText)
    /\ UNCHANGED <<isRecording, showQuickReplies>>
    /\ UNCHANGED <<edgeVars, triggerVars, rlsVars, envVars>>

\* onClick of the microphone button
ToggleRecording ==
    /\ mounted = "yes"
    /\ isRecording' = ~isRecording
    /\ UNCHANGED <<inputMessage, showQuickReplies>>
    /\ UNCHANGED <<chatVars, edgeVars, triggerVars, rlsVars, envVars>>

\* onClick of the Quick Replies switch of the settings panel
ToggleQuickReplies ==
    /\ mounted = "yes"
    /\ showQuickReplies' = ~showQuickReplies
    /\ UNCHANGED <<inputMessage, isRecording>>
    /\ UNCHANGED <<chatVars, edgeVars, triggerVars, rlsVars, envVars>>

InitEnv ==
    /\ now = 0
    /\ httpLog = <<>>

Init ==
    InitHook /\ InitEdge /\ InitTrigger /\ InitRLS /\ InitInterface /\ InitEnv

(***************************************************************************)
(* Spec: the whole hook.  The bounds cap how many effects run, how many    *)
(* sockets are created, and how many messages are sent and received.       *)
(***************************************************************************)
\* the replies of a server that suggests nothing; the hook's own behaviour
\* does not depend on the suggestions of a reply
PlainReplies == {Reply(FALSE, "")}

\* the replies of a server that may suggest something
SuggestingReplies == {Reply(sg, "") : sg \in BOOLEAN}

\* the effects run, the messages sent, the reactions given and the frames
\* received so far
Inputs == Len(inits) + nInputs

Next ==
    \/ Mount
    \/ \E sid \in Sessions : Inputs < MaxInputs /\ SessionChange(sid)
    \/ Unmount
    \/ \E i \in 1..Len(inits), ok \in BOOLEAN : HealthResult(i, ok)
    \/ \E i \in 1..Len(inits), h \in Histories :
          Len(sockets) < MaxSockets /\ HistoryResult(i, h)
    \/ \E s \in 1..Len(sockets) : WsOpen(s)
    \/ \E s \in 1..Len(sockets) : WsClose(s)
    \/ \E t \in 1..Len(timers) : Len(sockets) < MaxSockets /\ TimerFire(t)
    \/ \E c \in Contents : SendBlank(c)
    \/ \E c \in Contents : Inputs < MaxInputs /\ SendMessageCalled(c)
    \/ \E p \in 1..Len(posts), ok \in BOOLEAN, data \in PlainReplies :
          RestResponse(p, ok, data)
    \/ \E s \in 1..Len(sockets), type \in FrameTypes, data \in PlainReplies :
          Inputs < MaxInputs /\ WsFrame(s, type, data)

Spec == Init /\ [][Next]_vars

(***************************************************************************)
(* SpecInterface: the hook as ChatInterface uses it (one sessionId, the    *)
(* messages sent by the component's controls), in a browser whose          *)
(* WebSocket constructor may throw and with a server whose frames may not  *)
(* be JSON and whose replies may carry suggestions.                        *)
(***************************************************************************)
NextInterface ==
    \/ Mount
    \/ Unmount
    \/ \E i \in 1..Len(inits), ok \in BOOLEAN : HealthResult(i, ok)
    \/ \E i \in 1..Len(inits), h \in ShortHistories :
          Len(sockets) < MaxSockets /\ HistoryResult(i, h)
    \/ \E i \in 1..Len(inits), h \in ShortHistories : HistoryResultThrows(i, h)
    \/ \E s \in 1..Len(sockets) : WsOpen(s)
    \/ \E s \in 1..Len(sockets) : WsClose(s)
    \/ \E t \in 1..Len(timers) : Len(sockets) < MaxSockets /\ TimerFire(t)
    \/ \E t \in 1..Len(timers) : TimerFireThrows(t)
    \/ \E p \in 1..Len(posts), ok \in BOOLEAN, data \in SuggestingReplies :
          RestResponse(p, ok, data)
    \/ \E s \in 1..Len(sockets), type \in FrameTypes, data \in SuggestingReplies :
          Inputs < MaxInputs /\ WsFrame(s, type, data)
    \/ \E s \in 1..Len(sockets) : Inputs < MaxInputs /\ WsFrameInvalid(s)
    \/ \E c \in Contents : TypeInput(c)
    \/ Inputs < MaxInputs /\ ClickSend
    \/ Inputs < MaxInputs /\ PressEnter
    \/ \E reply \in QuickReplyTexts : Inputs < MaxInputs /\ ClickQuickReply(reply)
    \/ \E i \in 1..Len(messages) : Inputs < MaxInputs /\ ClickSuggestion(i)
    \/ ToggleRecording
    \/ ToggleQuickReplies

SpecInterface == Init /\ [][NextInterface]_vars

(***************************************************************************)
(* SpecFrames: the hook mounted once, with the frames it handles logged.   *)
(***************************************************************************)
NextFrames ==
    \/ Mount
    \/ \E i \in 1..Len(inits), ok \in BOOLEAN : HealthResult(i, ok)
    \/ \E i \in 1..Len(inits), h \in ShortHistories :
          Len(sockets) < MaxSockets /\ HistoryResult(i, h)
    \/ \E s \in 1..Len(sockets) : WsOpen(s)
    \/ \E s \in 1..Len(sockets) : WsClose(s)
    \/ \E t \in 1..Len(timers) : Len(sockets) < MaxSockets /\ TimerFire(t)
    \/ \E c \in Contents : Inputs < MaxInputs /\ SendMessageCalled(c)
    \/ \E p \in 1..Len(posts), ok \in BOOLEAN, data \in PlainReplies :
          RestResponse(p, ok, data)
    \/ \E s \in 1..Len(sockets), type \in FrameTypes, data \in PlainReplies :
          Inputs < MaxInputs /\ WsFrameLogged(s, type, data)

SpecFrames == Init /\ [][NextFrames]_vars

(***************************************************************************)
(* SpecMessages: the list of messages of the hook mounted once, with the   *)
(* clock running (or not) between the events, replies whose payload may    *)
(* carry a userReaction, and the reactions of the user.  The caller sends  *)
(* while no reply is awaited, as the controls of ChatInterface do.         *)
(***************************************************************************)
\* the contents that pass sendMessage's trim test
SentContents == {c \in Contents : Trim(c) # <<>>}

\* the replies of a server whose payload may have a userReaction field
ReactedReplies == {Reply(FALSE, ur) : ur \in {"", "helpful"}}

\* a frame that appends a message and one that does not
ListFrames == {"chat_response", "error"}

\* the ids of the messages on the screen, whose buttons call addReaction
ShownIds == {messages[i].id : i \in 1..Len(messages)}

NextMessages ==
    \/ Mount
    \/ \E i \in 1..Len(inits), ok \in BOOLEAN : HealthResult(i, ok)
    \/ \E i \in 1..Len(inits), h \in Histories :
          Len(sockets) < MaxSockets /\ HistoryResult(i, h)
    \/ \E s \in 1..Len(sockets) : WsOpen(s)
    \/ \E c \in SentContents :
          Inputs < MaxInputs /\ ~isTyping /\ SendMessageCalled(c)
    \/ \E p \in 1..Len(posts), ok \in BOOLEAN, data \in ReactedReplies :
          RestResponse(p, ok, data)
    \/ \E s \in 1..Len(sockets), type \in ListFrames, data \in ReactedReplies :
          Inputs < MaxInputs /\ WsFrame(s, type, data)
    \/ \E id \in ShownIds, r \in ReactionTypes :
          Inputs < MaxInputs /\ AddReaction(id, r)
    \/ now < MaxClock /\ Tick

SpecMessages == Init /\ [][NextMessages]_vars

(***************************************************************************)
(* SpecInit: initializeChat with the answers of GET /health and            *)
(* GET /session/{id}/history given and logged, while the user sends        *)
(* messages and changes the session, up to the moment the sockets it       *)
(* creates open or fail and the messages are answered.                     *)
(***************************************************************************)
NextInit ==
    \/ Mount
    \/ \E sid \in Sessions : Len(inits) < MaxEffects /\ SessionChange(sid)
    \/ \E i \in 1..Len(inits), a \in HealthAnswers : HealthResponse(i, a)
    \/ \E i \in 1..Len(inits), a \in HistoryAnswers :
          Len(sockets) < MaxSockets /\ HistoryResponse(i, a)
    \/ \E c \in SentContents : Inputs < MaxInputs /\ SendMessageCalled(c)

SpecInit == Init /\ [][NextInit]_vars

(***************************************************************************)
(* SpecReconnect: the connection life cycle alone (the user sends nothing  *)
(* and the server pushes no frame), long enough for a whole run of         *)
(* reconnect attempts.                                                     *)
(***************************************************************************)
NextReconnect ==
    \/ Mount
    \/ \E sid \in Sessions : Len(inits) < MaxEffects /\ SessionChange(sid)
    \/ Unmount
    \/ \E i \in 1..Len(inits), ok \in BOOLEAN : HealthResult(i, ok)
    \/ \E i \in 1..Len(inits), h \in ShortHistories :
          Len(sockets) < MaxReconnectSockets /\ HistoryResult(i, h)
    \/ \E s \in 1..Len(sockets) : WsOpen(s)
    \/ \E s \in 1..Len(sockets) : WsClose(s)
    \/ \E t \in 1..Len(timers) :
          Len(sockets) < MaxReconnectSockets /\ TimerFire(t)

SpecReconnect == Init /\ [][NextReconnect]_vars

(***************************************************************************)
(* SpecAllFail: the hook mounted once against a server that no socket      *)
(* reaches: every socket closes without opening.  The browser runs every   *)
(* pending timer and reports every failed connection, hence the fairness.  *)
(***************************************************************************)
NextAllFail ==
    \/ Mount
    \/ \E i \in 1..Len(inits), ok \in BOOLEAN : HealthResult(i, ok)
    \/ \E i \in 1..Len(inits), h \in ShortHistories :
          Len(sockets) < MaxReconnectSockets /\ HistoryResult(i, h)
    \/ \E s \in 1..Len(sockets) : WsClose(s)
    \/ \E t \in 1..Len(timers) :
          Len(sockets) < MaxReconnectSockets /\ TimerFire(t)
    \/ \E c \in Contents : Inputs < MaxInputs /\ SendMessageCalled(c)
    \/ \E p \in 1..Len(posts), ok \in BOOLEAN, data \in PlainReplies :
          RestResponse(p, ok, data)

SpecAllFail ==
    /\ Init
    /\ [][NextAllFail]_vars
    /\ WF_vars(\E s \in 1..Len(sockets) : WsClose(s))
    /\ WF_vars(\E t \in 1..Len(timers) :
                  Len(sockets) < MaxReconnectSockets /\ TimerFire(t))

(***************************************************************************)
(* Properties of the hook.                                                 *)
(***************************************************************************)
PendingTimers == {t \in 1..Len(timers) : timers[t].status = "pending"}

LiveSockets ==
    {s \in 1..Len(sockets) : sockets[s].state \in {"CONNECTING", "OPEN"}}

\* C1: within a run of failed connections (no onopen in between)
\* attemptReconnect schedules at most 5 reconnect attempts, and once the
\* counter stands at 5 no step schedules another timer.
ReconnectStopsAfterFive ==
    /\ [](runScheduled <= 5)
    /\ [][reconnectAttempts = 5 => Len(timers') = Len(timers)]_vars

ReconnectStopsAfterFiveWitness ==
    /\ runScheduled = 5
    /\ errors[ErrLost] = 1
    /\ PendingTimers = {}
    /\ LiveSockets = {}

BackoffTable == <<2000, 4000, 8000, 16000, 30000>>

BackoffDelays ==
    /\ [](/\ reconnectAttempts > 0 =>
                /\ reconnectAttempts <= 5
                /\ lastDelay = BackoffTable[reconnectAttempts]
          /\ lastDelay <= 30000
          /\ \A t \in PendingTimers : timers[t].delay <= 30000)
    /\ [][reconnectAttempts >= 1 /\ reconnectAttempts' = reconnectAttempts + 1
            => lastDelay' >= lastDelay]_vars

BackoffDelaysWitness ==
    /\ reconnectAttempts = 5
    /\ lastDelay = 30000
    /\ \E t \in PendingTimers : timers[t].delay = 30000

\* C4: sendMessage with non-blank content sends one frame over the socket
\* exactly when wsRef holds a socket whose readyState is OPEN; in every other
\* case (no socket, CONNECTING, CLOSING, CLOSED) it issues one POST /chat for
\* the session, and the answer to a POST appends the returned AI message.
SendStep ==
    /\ nInputs' = nInputs + 1
    /\ Len(messages') = Len(messages) + 1
    /\ messages'[Len(messages')].sender = "user"

FallsBackToHttp ==
    /\ [][SendStep =>
            IF wsRef # 0 /\ sockets[wsRef].state = "OPEN"
            THEN wsFrames' = wsFrames + 1 /\ posts' = posts
            ELSE /\ wsFrames' = wsFrames
                 /\ posts' = Append(posts, [session_id |-> sessionId])]_vars
    /\ [][Len(posts') < Len(posts) =>
            \/ /\ Len(messages') = Len(messages) + 1
               /\ SubSeq(messages', 1, Len(messages)) = messages
               /\ messages'[Len(messages')].sender = "ai"
               /\ errors' = errors
            \/ /\ messages' = messages
               /\ errors'[ErrSend] = errors[ErrSend] + 1]_vars

\* a POST for session s2 in flight, sent after the cleanup of the s1 effect
\* closed the only socket there is and before the s2 effect made its own
FallsBackToHttpWitness ==
    /\ Len(posts) = 1
    /\ posts[1].session_id = "s2"
    /\ wsFrames = 0
    /\ Len(sockets) = 1
    /\ wsRef = 1
    /\ sockets[1].state \in {"CLOSING", "CLOSED"}

\* C6: once initializeChat has loaded a non-empty history, the list starts
\* with the history items in the order GET /session/{id}/history returned
\* them, item i with id history-i, and every message after them is one that
\* was appended later (none of them a history item).
HistoryInOrder ==
    loaded # <<>> =>
        /\ Len(messages) >= Len(loaded)
        /\ \A i \in 1..Len(loaded) :
              /\ messages[i].id = <<"history", i - 1>>
              /\ messages[i].sender = "ai"
              /\ messages[i].content =
                    (IF loaded[i].ai_response # <<>>
                     THEN loaded[i].ai_response ELSE loaded[i].content)
        /\ \A j \in (Len(loaded) + 1)..Len(messages) :
              messages[j].id[1] # "history"

HistoryInOrderWitness ==
    /\ Len(loaded) = 2
    /\ loaded[1] # loaded[2]
    /\ Len(messages) > Len(loaded)
    /\ messages[Len(messages)].sender = "user"

\* C11: a step in which a socket of the hook closes (onerror and onclose, or
\* onclose alone) leaves isConnected false, and either it has scheduled one
\* reconnect timer, pending and held by reconnectTimeoutRef, or the counter
\* stood at 5 and it has called onError('Connection lost...') once; never
\* neither of the two.
SocketCloses ==
    \E s \in 1..Len(sockets) :
        sockets[s].state # "CLOSED" /\ sockets'[s].state = "CLOSED"

ReconnectOrGiveUp ==
    [][SocketCloses =>
        /\ isConnected' = FALSE
        /\ \/ /\ reconnectAttempts < 5
              /\ Len(timers') = Len(timers) + 1
              /\ timers'[Len(timers')].status = "pending"
              /\ reconnectTimeoutRef' = Len(timers')
              /\ errors' = errors
           \/ /\ reconnectAttempts = 5
              /\ errors' = [errors EXCEPT ![ErrLost] = @ + 1]
              /\ PendingTimers' = PendingTimers]_vars

\* the give-up: the sixth socket closed while the counter stood at 5
ReconnectOrGiveUpWitness ==
    /\ isConnected = FALSE
    /\ errors[ErrLost] = 1
    /\ reconnectAttempts = 5
    /\ Len(sockets) = 6
    /\ LiveSockets = {}

\* C13: whenever a catch block of the hook runs (initializeChat,
\* connectWebSocket, onmessage, sendMessage), onError is called in that step
\* with a non-empty message and the banner shows it; and a banner that is
\* shown stays shown (with the latest message) until a socket opens.
CaughtFailuresSurfaced ==
    /\ [][caught' # caught =>
            /\ \E k \in ErrKinds :
                  /\ k # ""
                  /\ errors' = [errors EXCEPT ![k] = @ + 1]
                  /\ connectionError' = k]_vars
    /\ [][connectionError # "" /\ connectionError' = "" =>
            \E s \in 1..Len(sockets) :
                sockets[s].state = "CONNECTING" /\ sockets'[s].state = "OPEN"]_vars

\* C14: a chat_response frame appends exactly one message, with sender 'ai',
\* at the end of the list, adds one to messageCount and sets isTyping false;
\* a typing frame changes isTyping and nothing else; an error frame calls
\* onError once, sets isTyping false and changes nothing else; typing and
\* error frames leave messages and messageCount as they were.
FrameHandled == Len(frameLog') = Len(frameLog) + 1

FrameType == frameLog'[Len(frameLog')]

FrameLeavesConnection ==
    UNCHANGED <<sessionId, mounted, inits, isConnected, wsRef, sockets, timers,
                reconnectTimeoutRef, reconnectAttempts, posts, wsFrames>>

FrameEffects ==
    [][FrameHandled =>
        /\ FrameLeavesConnection
        /\ FrameType = "chat_response" =>
              /\ Len(messages') = Len(messages) + 1
              /\ SubSeq(messages', 1, Len(messages)) = messages
              /\ messages'[Len(messages')].sender = "ai"
              /\ messageCount' = messageCount + 1
              /\ isTyping' = FALSE
              /\ UNCHANGED <<errors, connectionError>>
        /\ FrameType \in {"typing_on", "typing_off"} =>
              /\ isTyping' = (FrameType = "typing_on")
              /\ UNCHANGED <<messages, messageCount, errors, connectionError>>
        /\ FrameType = "error" =>
              /\ errors' = [errors EXCEPT ![ErrFrame] = @ + 1]
              /\ isTyping' = FALSE
              /\ UNCHANGED <<messages, messageCount>>]_vars

\* a typing frame and then a chat_response frame
FrameEffectsWitness ==
    /\ frameLog = <<"typing_on", "chat_response">>
    /\ isTyping = FALSE
    /\ Len(messages) > 0
    /\ messages[Len(messages)].sender = "ai"

\* C15: a sendMessage call with non-blank content makes exactly one
\* transmission attempt, one frame or one POST /chat and never both, and
\* no other step transmits anything: not the failure of a POST, not the
\* close of the socket a frame went to, not a reconnect.
OneTransmission ==
    /\ [][SendStep =>
            \/ wsFrames' = wsFrames + 1 /\ posts' = posts
            \/ /\ wsFrames' = wsFrames
               /\ Len(posts') = Len(posts) + 1
               /\ SubSeq(posts', 1, Len(posts)) = posts]_vars
    /\ [][~SendStep =>
            /\ wsFrames' = wsFrames
            /\ \/ posts' = posts
               \/ \E p \in 1..Len(posts) : posts' = RemoveAt(posts, p)]_vars

\* a message sent as a frame whose socket closed, after the reconnect: the
\* new socket is open, the reply never came and nothing was sent again
OneTransmissionWitness ==
    /\ wsFrames = 1
    /\ posts = <<>>
    /\ errors[ErrSend] = 0
    /\ Len(sockets) = 2
    /\ sockets[1].state = "CLOSED"
    /\ sockets[2].state = "OPEN"
    /\ Len(messages) > 0
    /\ messages[Len(messages)].sender = "user"

\* C16: in every state of the mounted ChatInterface with isConnected false
\* and isTyping false some control that reaches sendMessage is enabled: the
\* input (to type a text and send it with Enter or the button), a quick
\* reply, or a suggestion of a reply.
SomeSendControlEnabled ==
    \/ ~InputDisabled
    \/ ~SendDisabled
    \/ QuickRepliesShown
    \/ \E i \in 1..Len(messages) : SuggestionsShown(i)

CanSubmitWhileDisconnected ==
    mounted = "yes" /\ ~isConnected /\ ~isTyping => SomeSendControlEnabled

\* C17: reconnectAttempts is always within 0..5; it changes only by one step
\* up (a reconnect attempt scheduled) or back to 0, and it is set to 0 in
\* exactly the steps in which a socket opens; so it counts the attempts
\* scheduled since the last open, and a close after an open has the whole
\* budget of 5 again.
SocketOpens ==
    \E s \in 1..Len(sockets) :
        sockets[s].state = "CONNECTING" /\ sockets'[s].state = "OPEN"

CounterCountsConsecutiveFailures ==
    /\ [](reconnectAttempts \in 0..5 /\ reconnectAttempts = runScheduled)
    /\ [][SocketOpens => reconnectAttempts' = 0]_vars
    /\ [][reconnectAttempts' # reconnectAttempts =>
            \/ reconnectAttempts' = reconnectAttempts + 1
            \/ reconnectAttempts' = 0 /\ SocketOpens]_vars

\* six timers in all and the counter at 5: a socket failed, the next one
\* opened and closed, and five attempts have been scheduled since
CounterCountsConsecutiveFailuresWitness ==
    /\ Len(timers) = 6
    /\ reconnectAttempts = 5
    /\ PendingTimers # {}
    /\ errors[ErrLost] = 0

\* C18: once cleanup has run, no socket is created for the session it ended
\* and no reconnect timer of that session is pending: after the unmount no
\* socket is created and no timer is pending at all, and after a change of
\* sessionId every socket created and every pending timer is of the current
\* session; also when the closed socket's onclose, or an initializeChat
\* started before, runs after the cleanup.
CleanupEndsSession ==
    /\ [](mounted = "gone" => PendingTimers = {})
    /\ [](\A t \in PendingTimers : timers[t].sid = sessionId)
    /\ [][mounted = "gone" => Len(sockets') = Len(sockets)]_vars
    /\ [][Len(sockets') > Len(sockets) =>
            sockets'[Len(sockets')].sid = sessionId']_vars

\* C19: isTyping set by sendMessage does not stay true: the step in which a
\* POST settles (answer or failure) sets it false, and once the socket a
\* frame went to has closed it is false too, so that isTyping is true only
\* while a POST is in flight or a socket is there to deliver a frame.
TypingEnds ==
    /\ [][Len(posts') < Len(posts) => isTyping' = FALSE]_vars
    /\ [](isTyping =>
            \/ posts # <<>>
            \/ \E s \in 1..Len(sockets) :
                  sockets[s].state \in {"OPEN", "CLOSING"})

\* C20: a message appended by sendMessage (the user's message, or the reply
\* to it) is in the list after every later step; in particular after the
\* step in which initializeChat loads the history.
SentMessagesKept ==
    [][\A i \in 1..Len(messages) :
          messages[i].id[1] # "history" =>
              \E j \in 1..Len(messages') : messages'[j] = messages[i]]_vars

ChangedMessages == {i \in 1..Len(messages) : messages'[i] # messages[i]}

DistinctIds ==
    /\ [](\A i, j \in 1..Len(messages) :
             i # j => messages[i].id # messages[j].id)
    /\ [][nInputs' # nInputs /\ Len(messages') = Len(messages) =>
            Cardinality(ChangedMessages) <= 1]_vars

\* C23: every AI message of the list, built from a history item, a REST
\* response or a chat_response frame, whatever its payload, has reaction
\* counters that are never negative, 1 for its userReaction and 0 for the
\* others (so at most one reaction of the user), before and after any calls
\* of addReaction; and a call of addReaction either gives a message a
\* reaction it did not have or, for the one it has, removes it.
ReactionsConsistent ==
    /\ [](\A i \in 1..Len(messages) : messages[i].sender = "ai" =>
             /\ messages[i].userReaction \in ReactionTypes \cup {""}
             /\ \A r \in ReactionTypes :
                   /\ messages[i].reactions[r] >= 0
                   /\ messages[i].reactions[r] =
                         (IF messages[i].userReaction = r THEN 1 ELSE 0))
    /\ [][nInputs' # nInputs /\ Len(messages') = Len(messages) =>
            \A i \in ChangedMessages :
                \/ /\ messages'[i].userReaction \in ReactionTypes
                   /\ messages'[i].userReaction # messages[i].userReaction
                \/ /\ messages'[i].userReaction = ""
                   /\ messages[i].userReaction \in ReactionTypes]_vars

\* C24: when GET /health fails (fetch rejects) or answers not ok, the
\* initializeChat call calls onError('Backend service is not available'),
\* loads no history and creates no socket, in that step and ever after; the
\* history is requested only after a healthy answer; when only the history
\* request fails (fetch rejects, or the answer is not ok, whatever its body),
\* nothing is thrown or reported, messages and messageCount stay as they
\* were and the call goes on to create its socket.
HttpAnswered == Len(httpLog') = Len(httpLog) + 1

LastAnswer == httpLog'[Len(httpLog')]

RequestFailed(answer) == answer.threw \/ ~answer.ok

InitFailures ==
    /\ [][HttpAnswered /\ LastAnswer.endpoint = "health"
                       /\ RequestFailed(LastAnswer.answer) =>
            /\ errors' = [errors EXCEPT ![ErrBackend] = @ + 1]
            /\ connectionError' = ErrBackend
            /\ inits'[LastAnswer.init].pc = "failed"
            /\ UNCHANGED <<messages, messageCount, loaded, sockets, wsRef>>]_vars
    /\ [][\A i \in 1..Len(inits) :
             inits[i].pc = "failed" => inits'[i].pc = "failed"]_vars
    /\ [][HttpAnswered /\ LastAnswer.endpoint = "history" =>
            \E k \in 1..Len(httpLog) :
                /\ httpLog[k].endpoint = "health"
                /\ httpLog[k].init = LastAnswer.init
                /\ ~RequestFailed(httpLog[k].answer)]_vars
    /\ [][HttpAnswered /\ LastAnswer.endpoint = "history"
                       /\ RequestFailed(LastAnswer.answer) =>
            /\ UNCHANGED <<messages, messageCount, loaded, errors, caught,
                           connectionError>>
            /\ inits'[LastAnswer.init].pc = "done"
            /\ sockets' = Append(sockets,
                  [state |-> "CONNECTING", sid |-> inits[LastAnswer.init].sid])
            /\ wsRef' = Len(sockets')]_vars

\* the health check of the first call failed, a message was sent, and the
\* call for the next session got a healthy answer and a history request
\* that failed with a history in its body: the message is still the list,
\* and the one socket is the second call's
InitFailuresWitness ==
    /\ Len(httpLog) = 3
    /\ httpLog[1].endpoint = "health" /\ httpLog[1].answer.threw
    /\ httpLog[3].endpoint = "history" /\ httpLog[3].init = 2
    /\ ~httpLog[3].answer.ok /\ "history" \in DOMAIN httpLog[3].answer.body
    /\ errors[ErrBackend] = 1
    /\ Len(messages) = 1 /\ messages[1].sender = "user"
    /\ loaded = <<>>
    /\ Len(sockets) = 1 /\ sockets[1].sid = inits[2].sid

\* C10: at any time at most one WebSocket created by the hook is CONNECTING
\* or OPEN.
OneLiveSocket == Cardinality(LiveSockets) <= 1

(***************************************************************************)
(* SpecEdge: requests served by the chat edge function, concurrently.      *)
(***************************************************************************)
NextEdge ==
    \/ \E in \in EdgeInputs : Len(requests) < MaxRequests /\ Serve(in)
    \/ \E r \in 1..Len(requests) : ReadBody(r)
    \/ \E r \in 1..Len(requests), ok \in BOOLEAN : GetUser(r, ok)
    \/ \E r \in 1..Len(requests), stored \in BOOLEAN : InsertUserMessage(r, stored)
    \/ \E r \in 1..Len(requests), stored \in BOOLEAN : InsertAiMessage(r, stored)
    \/ \E r \in 1..Len(requests) : ApiSendMessage(r)

SpecEdge == Init /\ [][NextEdge]_vars

(***************************************************************************)
(* SpecTrigger: transactions inserting chat_messages rows.                 *)
(***************************************************************************)
NextTrigger ==
    \/ \E t \in Txs, s \in Sessions : TxInsert(t, s)
    \/ \E t \in Txs : TxTriggerUpdate(t)
    \/ \E t \in Txs : TxCommit(t)
    \/ \E t \in Txs : TxRollback(t)

SpecTrigger == Init /\ [][NextTrigger]_vars

(***************************************************************************)
(* SpecRLS: callers using the tables through the policies.                 *)
(***************************************************************************)
NextRLS ==
    \/ \E uid \in Callers, s \in Sessions, u \in Users : RlsInsertSession(uid, s, u)
    \/ \E uid \in Callers, s \in Sessions, s2 \in Sessions, u \in Users :
          RlsUpdateSession(uid, s, s2, u)
    \/ \E uid \in Callers, s \in Sessions : RlsDeleteSession(uid, s)
    \/ \E uid \in Callers, s \in Sessions : RlsInsertMessage(uid, s)
    \/ \E uid \in Callers : RlsSelectMessages(uid)

SpecRLS == Init /\ [][NextRLS]_vars

(***************************************************************************)
(* Properties of the edge function, the trigger and the policies.          *)
(***************************************************************************)
RowsOf(r, sender) ==
    {i \in 1..Len(rows) : rows[i].request = r /\ rows[i].sender = sender}

\* C5: every chat request answered with HTTP 200 has stored exactly one row
\* with sender 'user' and exactly one with sender 'ai' for its session_id,
\* the user row first.
PersistsOneUserOneAiRow ==
    \A r \in 1..Len(requests) :
        requests[r].method = "POST" /\ requests[r].pc \in {"done", "settled"}
            /\ requests[r].status = 200 =>
                /\ Cardinality(RowsOf(r, "user")) = 1
                /\ Cardinality(RowsOf(r, "ai")) = 1
                /\ \A i \in RowsOf(r, "user"), j \in RowsOf(r, "ai") :
                      /\ i < j
                      /\ rows[i].session_id = requests[r].session_id
                      /\ rows[j].session_id = requests[r].session_id

\* C7: once every inserting transaction has committed (or rolled back),
\* message_count of every session equals the number of its chat_messages rows.
MessageCountCorrect ==
    (\A t \in Txs : tx[t].pc \in {"idle", "committed", "aborted"}) =>
        \A s \in Sessions :
            message_count[s] = Cardinality(CommittedMessages(s))

\* C8: every message row was inserted by the owner of the session it
\* references, and every message row a SELECT returned belongs to a session
\* owned by the reader.
RlsIsolation ==
    /\ \A m \in messageRows : sessionRows[m.session_id] = m.by
    /\ \A e \in selected : e.reader = e.owner

RlsIsolationWitness ==
    /\ sessionRows["s1"] = "alice"
    /\ sessionRows["s2"] = "bob"
    /\ \E m \in messageRows : m.session_id = "s1" /\ m.by = "alice"
    /\ \E m \in messageRows : m.session_id = "s2" /\ m.by = "bob"
    /\ selected = {[reader |-> "alice", owner |-> "alice"],
                   [reader |-> "bob", owner |-> "bob"]}

\* C12: every response to a POST /chat that is not 2xx has a JSON body with a
\* non-empty detail string, and the Error ApiService.sendMessage throws for
\* it has that string, the server's error text, as its message.
ErrorDetailReported ==
    \A r \in 1..Len(requests) :
        requests[r].pc = "settled" /\ ~ResponseOk(requests[r].status) =>
            /\ "detail" \in DOMAIN requests[r].body
            /\ requests[r].body.detail \in {ErrMethod, ErrFields}
            /\ requests[r].thrown = requests[r].body.detail

\* C25: the edge function stores no row for a request it rejects: a request
\* whose method is neither POST nor OPTIONS, or a POST whose body lacks
\* content or session_id, is answered with status 400 and has no row in the
\* table, before and after the answer; an OPTIONS request is answered 'ok'
\* with the CORS headers and has no row either.
Rejected(req) ==
    \/ req.method \notin {"POST", "OPTIONS"}
    \/ req.method = "POST" /\ (req.content = "" \/ req.session_id = "")

Answered(req) == req.pc \in {"done", "settled"}

RejectedStoreNothing ==
    \A r \in 1..Len(requests) :
        /\ Rejected(requests[r]) =>
              /\ RowsOf(r, "user") \cup RowsOf(r, "ai") = {}
              /\ requests[r].pc \notin {"auth", "insertUser", "insertAi"}
              /\ Answered(requests[r]) => requests[r].status = 400
        /\ requests[r].method = "OPTIONS" =>
              /\ RowsOf(r, "user") \cup RowsOf(r, "ai") = {}
              /\ Answered(requests[r])
              /\ requests[r].body = PreflightBody
              /\ ResponseOk(requests[r].status)
              /\ CorsHeaders \subseteq requests[r].headers

\* a POST without session_id answered 400, next to a POST that was accepted
\* and has its two rows
RejectedStoreNothingWitness ==
    /\ Len(requests) = 2
    /\ requests[1].method = "POST" /\ requests[1].session_id = ""
    /\ requests[1].status = 400
    /\ requests[2].status = 200
    /\ Len(rows) = 2
    /\ RowsOf(2, "user") # {} /\ RowsOf(2, "ai") # {}

\* C26: the ChatResponse that ApiService.sendMessage returns to the hook for
\* a POST /chat carries the session_id of that request, which is the
\* session_id of the user message the hook appended before it.
ResponseCarriesSessionId ==
    \A r \in 1..Len(requests) :
        requests[r].pc = "settled" /\ requests[r].thrown = "" =>
            /\ "session_id" \in DOMAIN requests[r].body
            /\ requests[r].body.session_id = requests[r].session_id

\* C9: every row the edge function stored for a session was stored for a
\* request whose authenticated caller owns that session.
EdgeSessionIsolation ==
    \A i \in 1..Len(rows) : rows[i].user_id = SessionOwner[rows[i].session_id]

====
